---------------------------- MODULE Spec2Model ----------------------------
(***************************************************************************)
(* ZCleaner scan engine (src/src/core/scan_engine.py) and the part of the  *)
(* main window that drives it (src/src/gui/main_window.py).                *)
(*                                                                         *)
(* A file is identified by its position in the walk order of the tree, so  *)
(* path p was discovered before path q exactly when p < q.  A file's       *)
(* content is abstracted to the triple of values the engine derives from   *)
(* it: its byte size (in MiB), its CRC32 and its MD5, and a variant that   *)
(* tells apart contents on which all three agree.  The values of a file    *)
(* are chosen independently, so that a tree may hold files whose digests   *)
(* collide although their contents differ.  A file also carries the names  *)
(* of the directories that lead from the root to it; the tree lists the    *)
(* files in the order in which os.walk yields them, and only directories   *)
(* that hold a file are modelled.                                          *)
(***************************************************************************)
EXTENDS Naturals, Integers, Sequences, FiniteSets, TLC

\* ------------------------------------------------------------------ bounds
MaxFiles == 4
EnvFiles == 3
MaxBroken == 1
MaxScans == 2
MaxDirs == 4
ManyFiles == 11
MaxNew == 1
WalkFiles == 3
FairFiles == 2
HashFiles == 4

\* ------------------------------------------------------- program constants
max_file_size_mb == 2000
max_workers == 8

skip_folders ==
    {"Windows", "Program Files", "ProgramData", "AppData", "$Recycle.Bin",
     "System Volume Information"}

image_exts == {".jpg", ".jpeg", ".png", ".webp", ".bmp", ".tiff", ".gif"}

video_exts == {".mp4", ".mov", ".avi", ".mkv", ".wmv", ".flv", ".webm"}

document_exts == {".pdf", ".doc", ".docx", ".txt", ".rtf", ".odt"}

allowed_exts == image_exts \cup video_exts \cup document_exts

\* ------------------------------------------------------------ input domain
Sizes == {1, 2}
Crcs == {1, 2}
Md5s == {1, 2}

\* The files a tree may hold: files of the first size with every
\* combination of CRC32 and MD5, files of the second size with every MD5,
\* and a second content with the size and digests of the first.
FileKinds ==
    { f \in [size : Sizes, crc : Crcs, md5 : Md5s, variant : {"a"}, ext : {".txt"},
             dir : {<< >>}] :
        f.size = 1 \/ f.crc = 1 }
      \cup { [size |-> 1, crc |-> 1, md5 |-> 1, variant |-> "b", ext |-> ".txt",
        dir |-> << >>] }

\* A smaller choice for the runs that also let the environment act, with a
\* file of an extension outside the allow-set and a file over the size cap.
FewKinds ==
    { [size |-> 1, crc |-> 1, md5 |-> 1, variant |-> "a", ext |-> ".txt",
        dir |-> << >>],
      [size |-> 1, crc |-> 1, md5 |-> 2, variant |-> "a", ext |-> ".txt",
        dir |-> << >>],
      [size |-> 2, crc |-> 1, md5 |-> 1, variant |-> "a", ext |-> ".exe",
        dir |-> << >>],
      [size |-> 2001, crc |-> 2, md5 |-> 2, variant |-> "a", ext |-> ".jpg",
        dir |-> << >>] }

RootKinds == {"dir", "missing", "file"}

\* Files that share size and CRC32, of either digest, for the runs that scan
\* one tree twice.
RepeatKinds ==
    { [size |-> 1, crc |-> 1, md5 |-> 1, variant |-> "a", ext |-> ".txt",
        dir |-> << >>],
      [size |-> 1, crc |-> 1, md5 |-> 2, variant |-> "a", ext |-> ".txt",
        dir |-> << >>] }

\* One file content, for the trees large enough for the updates that are
\* made every 10 files.
Common == [size |-> 1, crc |-> 1, md5 |-> 1, variant |-> "a", ext |-> ".txt",
        dir |-> << >>]

\* Files for the runs that look at the hashing stages: a content, a file of
\* its size and MD5 with another CRC32, and two contents of the second size.
HashKinds ==
    { f \in FileKinds :
        /\ f.variant = "a"
        /\ << f.size, f.crc, f.md5 >> \in
              { << 1, 1, 1 >>, << 1, 2, 1 >>, << 2, 1, 1 >>, << 2, 1, 2 >> } }

\* A root path: the name of its last component, and whether the path was
\* written with a trailing separator.
PlainRoot == [base |-> "data", sep |-> FALSE]

RootFolders ==
    { PlainRoot, [base |-> "AppData", sep |-> FALSE],
      [base |-> "AppData", sep |-> TRUE] }

\* Files for the runs that look at discovery: in the root directory a file
\* with an upper-case extension, a file of an extension outside the
\* allow-set and a file over the size cap, and a file in each of three
\* directories below the root.
WalkKinds ==
    { [size |-> 1, crc |-> 1, md5 |-> 1, variant |-> "a", ext |-> ".TXT",
        dir |-> << >>],
      [size |-> 1, crc |-> 1, md5 |-> 1, variant |-> "a", ext |-> ".exe",
        dir |-> << >>],
      [size |-> 2001, crc |-> 1, md5 |-> 1, variant |-> "a", ext |-> ".jpg",
        dir |-> << >>] }
      \cup { [size |-> 1, crc |-> 1, md5 |-> 1, variant |-> "a", ext |-> ".txt",
               dir |-> d] : d \in { << "pics" >>, << "AppData" >>,
                                    << "AppData", "pics" >> } }

VARIABLES
    tree,          \* walk order of the root directory: path -> file
    rootKind,      \* what the root path names
    root_folder,   \* the root path as it was passed to scan_folder
    broken,        \* paths on which every stat/open now raises OSError
    cancelled,     \* ScanEngine.cancelled
    entryFlag,     \* value of the flag when scan_folder was entered
    pc,            \* position of the thread running scan_folder
    total_items,   \* discover_files: denominator of the first pass
    k,             \* index of the per-file loop in progress
    files,         \* discover_files: files collected so far
    size_groups,   \* _group_by_size: dict size -> paths, in insertion order
    crc_groups,    \* _hash_files: dict (size, crc) -> paths
    potential,     \* _hash_files: potential_duplicates
    gi,            \* index of the per-group loop in progress
    futures,       \* _hash_files: submitted tasks, in submission order
    md5_groups,    \* _hash_files: dict md5 -> paths
    outcome,       \* how scan_folder ended
    result,        \* the ScanResult returned
    progress,      \* the calls of the progress callback: percentage, message
    prev,          \* what the previous scan_folder call returned, if any
    cancelAt,      \* where the running scan was when the flag was set
    \* MainWindow and its scan worker threads
    scanning,      \* MainWindow.scanning
    scan_btn,      \* state of the Start Scan button
    cancel_btn,    \* state of the Cancel button
    status,        \* MainWindow.status_var
    wpc,           \* position of each scan worker thread
    wres,          \* how each worker's scan_folder call ended
    events,        \* callbacks queued with root.after, oldest first
    cancelReq,     \* sessions that were running when Cancel was pressed
    reported,      \* sessions that have reported completion
    \* move_duplicates / delete_duplicates
    dups,          \* the duplicate groups passed in
    fsys,          \* the file system: existing path -> file
    fs0,           \* the file system when the operation was called
    mode,          \* which of the two operations runs
    cl_pc,         \* position of the thread running it
    cgi,           \* index of the group in progress
    cj,            \* index of the duplicate in progress within group[1:]
    op_count,      \* moved_count / deleted_count
    op_size,       \* moved_size / deleted_size
    attempts       \* the duplicates the loop body has run for, in order

dataVars ==
    << tree, rootKind, root_folder, broken, entryFlag, pc, total_items, k, files,
       size_groups, crc_groups, potential, gi, futures, md5_groups, outcome,
       result, progress, prev, cancelAt >>

guiVars ==
    << scanning, scan_btn, cancel_btn, status, wpc, wres, events, cancelReq,
       reported >>

cleanVars ==
    << dups, fsys, fs0, mode, cl_pc, cgi, cj, op_count, op_size, attempts >>

engineVars == << dataVars, cleanVars >>

vars == << cancelled, dataVars, guiVars, cleanVars >>

\* ---------------------------------------------------------------- helpers
Paths == 1 .. Len(tree)

None == << >>
Some(v) == << v >>

\* A Python dict in insertion order: a sequence of [key, val] entries.
Keys(d) == { d[i].key : i \in 1 .. Len(d) }

IndexOf(d, key) == CHOOSE i \in 1 .. Len(d) : d[i].key = key

\* defaultdict(list): d[key].append(v)
DictAppend(d, key, v) ==
    IF key \in Keys(d)
      THEN [d EXCEPT ![IndexOf(d, key)].val = Append(@, v)]
      ELSE Append(d, [key |-> key, val |-> << v >>])

MultiGroupsOverTwo(d) ==
    LET keep == SelectSeq(d, LAMBDA e : Len(e.val) > 2)
    IN  [i \in 1 .. Len(keep) |-> keep[i].val]

\* [group for group in d.values() if len(group) > 1]
MultiGroups(d) ==
    LET keep == SelectSeq(d, LAMBDA e : Len(e.val) > 1)
    IN  [i \in 1 .. Len(keep) |-> keep[i].val]

Members(g) == { g[i] : i \in 1 .. Len(g) }

RECURSIVE SumSizes(_)
SumSizes(s) ==
    IF s = << >> THEN 0 ELSE tree[Head(s)].size + SumSizes(Tail(s))

RECURSIVE SumWholeGroups(_)
SumWholeGroups(groups) ==
    IF groups = << >> THEN 0
    ELSE SumSizes(Head(groups)) + SumWholeGroups(Tail(groups))

\* sum(sum(os.path.getsize(dup) for dup in group[1:]) for group in duplicates)
RECURSIVE SumTails(_)
SumTails(groups) ==
    IF groups = << >> THEN 0
    ELSE SumSizes(Tail(Head(groups))) + SumTails(Tail(groups))

\* str.lower() on the extensions a tree may hold
Lower(ext) ==
    CASE ext = ".TXT" -> ".txt"
      [] ext = ".JPG" -> ".jpg"
      [] OTHER -> ext

\* os.path.basename of the path os.walk yields for directory d: the root
\* path as it was passed, or the root joined with the names of d.  A path
\* that ends in a separator has an empty base name.
BaseName(d) ==
    IF d = << >>
      THEN IF root_folder.sep THEN "" ELSE root_folder.base
      ELSE d[Len(d)]

\* _should_skip_folder
ShouldSkipFolder(d) == BaseName(d) \in skip_folders

\* os.walk, top down, with "dirs.clear()" at a skipped directory: d is
\* yielded when no directory above it was skipped.
Yielded(d) == \A n \in 0 .. Len(d) - 1 : ~ ShouldSkipFolder(SubSeq(d, 1, n))

\* The directories os.walk yields, in order.
RECURSIVE DirsFrom(_, _)
DirsFrom(p, seen) ==
    IF p > Len(tree) THEN << >>
    ELSE IF tree[p].dir \in seen \/ ~ Yielded(tree[p].dir)
      THEN DirsFrom(p + 1, seen)
      ELSE << tree[p].dir >> \o DirsFrom(p + 1, seen \cup {tree[p].dir})

Walked == IF rootKind = "dir" THEN DirsFrom(1, {}) ELSE << >>

\* len(filenames) of directory d
FilesIn(d) == { p \in Paths : tree[p].dir = d }

\* The files the loops over filenames reach, in order: those of the yielded
\* directories that are not skipped.
RECURSIVE ListFrom(_)
ListFrom(p) ==
    IF p > Len(tree) THEN << >>
    ELSE IF Yielded(tree[p].dir) /\ ~ ShouldSkipFolder(tree[p].dir)
      THEN << p >> \o ListFrom(p + 1)
      ELSE ListFrom(p + 1)

Listing == IF rootKind = "dir" THEN ListFrom(1) ELSE << >>

ValidAtAnySize(p) ==
    /\ Lower(tree[p].ext) \in allowed_exts
    /\ p \notin broken

\* _is_valid_file: lower-cased extension in the allow-set, size within the
\* cap, and False when getsize raises.
IsValidFile(p) ==
    /\ Lower(tree[p].ext) \in allowed_exts
    /\ p \notin broken
    /\ ~ (tree[p].size > max_file_size_mb)

\* _crc32_hash / _md5_hash: the digest, or None when the read raises.
Crc32Hash(p) == IF p \in broken THEN None ELSE Some(tree[p].crc)

Md5Hash(p) == IF p \in broken THEN None ELSE Some(tree[p].md5)

OversizedResult ==
    [total_files |-> MaxFiles + 1, total_size |-> 0, duplicates |-> << >>,
     space_saved |-> 0]

\* ScanResult(0, 0, [], 0)
EmptyResult ==
    [total_files |-> 0, total_size |-> 0, duplicates |-> << >>, space_saved |-> 0]

\* self._update_progress(progress, message)
Emit(pct, msg) == progress' = Append(progress, [pct |-> pct, msg |-> msg])

\* ------------------------------------------------------------------- Init
InitScan ==
    /\ broken = {}
    /\ cancelled = FALSE
    /\ entryFlag = FALSE
    /\ pc = "idle"
    /\ total_items = 0
    /\ k = 0
    /\ files = << >>
    /\ size_groups = << >>
    /\ crc_groups = << >>
    /\ potential = << >>
    /\ gi = 0
    /\ futures = << >>
    /\ md5_groups = << >>
    /\ outcome = "none"
    /\ result = EmptyResult
    /\ progress = << >>
    /\ prev = None
    /\ cancelAt = None

\* MainWindow.__init__ and _setup_gui: nothing scanning, Cancel disabled.
Scans == 1 .. MaxScans

InitGui ==
    /\ scanning = FALSE
    /\ scan_btn = "normal"
    /\ cancel_btn = "disabled"
    /\ status = "Ready"
    /\ wpc = [t \in Scans |-> "none"]
    /\ wres = [t \in Scans |-> "none"]
    /\ events = << >>
    /\ cancelReq = [t \in Scans |-> FALSE]
    /\ reported = [t \in Scans |-> FALSE]

\* No cleanup operation in progress, on an empty list of groups.
InitNoCleanup ==
    /\ dups = << >>
    /\ fsys = << >>
    /\ fs0 = << >>
    /\ mode = "none"
    /\ cl_pc = "idle"
    /\ cgi = 0
    /\ cj = 0
    /\ op_count = 0
    /\ op_size = 0
    /\ attempts = << >>

\* A root that is missing or is a plain file has no entries to list.
Init ==
    /\ rootKind \in RootKinds
    /\ root_folder = PlainRoot
    /\ tree \in IF rootKind = "dir" THEN [1 .. EnvFiles -> FewKinds] ELSE {<< >>}
    /\ InitScan
    /\ InitGui
    /\ InitNoCleanup

\* ---------------------------------------------------------- environment
\* How far the thread running scan_folder has got: the stage it is in and
\* the index of the loop it runs there.
StageRank ==
    [idle |-> 0, count |-> 1, walk |-> 2, check1 |-> 3, stat |-> 4, crc |-> 5,
     submit |-> 6, collect |-> 7, join |-> 8, check2 |-> 9, finish |-> 10,
     done |-> 11]

Point ==
    << StageRank[pc],
       IF pc \in {"count", "walk", "stat", "collect"} THEN k
       ELSE IF pc \in {"crc", "submit"} THEN gi ELSE 0 >>

\* cancel_scan(): may be called by any thread at any time.  The record of
\* where the scan was is left to the specification that keeps it.
CancelScan ==
    /\ cancelled' = TRUE
    /\ UNCHANGED << tree, rootKind, root_folder, broken, entryFlag, pc, total_items, k, files,
                    size_groups, crc_groups, potential, gi, futures, md5_groups,
                    outcome, result, progress >>
    /\ UNCHANGED << prev, guiVars, cleanVars >>

\* A file is deleted or made unreadable by another program: from now on
\* getsize and open raise OSError on it.
FileBreaks(p) ==
    /\ p \notin broken
    /\ Cardinality(broken) < MaxBroken
    /\ broken' = broken \cup {p}
    /\ UNCHANGED << tree, rootKind, root_folder, cancelled, entryFlag, pc, total_items, k,
                    files, size_groups, crc_groups, potential, gi, futures,
                    md5_groups, outcome, result, progress >>
    /\ UNCHANGED << prev, cancelAt, guiVars, cleanVars >>

\* ------------------------------------------------------------ scan_folder
\* scan_folder entry: reset the flag, report 0 %, and enter discover_files.
\* os.walk swallows the error of a root it cannot list (onerror is None) and
\* yields nothing.
ScanStart ==
    /\ pc = "idle"
    /\ entryFlag' = cancelled
    /\ cancelled' = FALSE
    /\ Emit(0, "Starting scan...")
    /\ total_items' = 0
    /\ k' = 1
    /\ pc' = IF Walked = << >> THEN "walk" ELSE "count"
    /\ cancelAt' = None
    /\ UNCHANGED << tree, rootKind, root_folder, broken, files, size_groups,
                    crc_groups, potential, gi, futures, md5_groups, outcome,
                    result >>
    /\ UNCHANGED << prev, guiVars, cleanVars >>

\* discover_files, first pass: one iteration of the loop over the
\* directories os.walk yields, which adds the number of entries of a
\* directory that is not skipped.  The loop does not read the flag.
CountStep ==
    /\ pc = "count"
    /\ total_items' =
          IF ShouldSkipFolder(Walked[k]) THEN total_items
          ELSE total_items + Cardinality(FilesIn(Walked[k]))
    /\ IF k < Len(Walked)
         THEN /\ k' = k + 1
              /\ pc' = pc
         ELSE /\ k' = 1
              /\ pc' = "walk"
    /\ UNCHANGED << tree, rootKind, root_folder, broken, cancelled, entryFlag,
                    files, size_groups, crc_groups, potential, gi, futures,
                    md5_groups, outcome, result, progress >>
    /\ UNCHANGED << prev, cancelAt, guiVars, cleanVars >>

\* discover_files, second pass: one iteration of the loop over the files of
\* a directory that is not skipped.  The flag is read before every directory
\* and before every file.
WalkStep ==
    /\ pc = "walk"
    /\ IF cancelled \/ k > Len(Listing)
         THEN /\ pc' = "check1"
              /\ UNCHANGED << k, files, progress >>
         ELSE /\ LET file_path == Listing[k]
                 IN  files' = IF IsValidFile(file_path)
                                THEN Append(files, file_path) ELSE files
              /\ IF k % 10 = 0
                   THEN Emit((k * 30) \div total_items, "Discovering files...")
                   ELSE UNCHANGED progress
              /\ k' = k + 1
              /\ pc' = pc
    /\ UNCHANGED << tree, rootKind, root_folder, broken, cancelled, entryFlag,
                    total_items, size_groups, crc_groups, potential, gi, futures,
                    md5_groups, outcome, result >>
    /\ UNCHANGED << prev, cancelAt, guiVars, cleanVars >>

\* scan_folder: "if self.cancelled: return ScanResult(0, 0, [], 0)" after
\* discovery.
CheckAfterDiscovery ==
    /\ pc = "check1"
    /\ IF cancelled
         THEN /\ pc' = "done"
              /\ outcome' = "cancelled"
              /\ result' = EmptyResult
              /\ UNCHANGED k
         ELSE /\ pc' = "stat"
              /\ k' = 1
              /\ UNCHANGED << outcome, result >>
    /\ UNCHANGED << tree, rootKind, root_folder, broken, cancelled, entryFlag, total_items,
                    files, size_groups, crc_groups, potential, gi, futures,
                    md5_groups, progress >>
    /\ UNCHANGED << prev, cancelAt, guiVars, cleanVars >>

\* _group_by_size: one iteration of the loop over the discovered files.
\* Leaving the loop, _hash_files reports progress_start = 30 %.
StatStep ==
    /\ pc = "stat"
    /\ IF k > Len(files) \/ cancelled
         THEN /\ pc' = "crc"
              /\ gi' = 1
              /\ Emit(30, "Calculating CRC32 hashes...")
              /\ UNCHANGED << k, size_groups >>
         ELSE /\ size_groups' =
                    IF files[k] \in broken THEN size_groups
                    ELSE DictAppend(size_groups, tree[files[k]].size, files[k])
              /\ k' = k + 1
              /\ UNCHANGED << pc, gi, progress >>
    /\ UNCHANGED << tree, rootKind, root_folder, broken, cancelled, entryFlag, total_items,
                    files, crc_groups, potential, futures, md5_groups, outcome,
                    result >>
    /\ UNCHANGED << prev, cancelAt, guiVars, cleanVars >>

NeverTooFew(file_list) == FALSE

\* "if len(file_list) < 2: continue"
TooFew(file_list) == Len(file_list) < 2

\* _hash_files, pass 1: one iteration of the loop over the size buckets; a
\* bucket of at least 2 files has the CRC32 of each member read.  Leaving
\* the loop reports 60 % and builds potential_duplicates.
RECURSIVE CrcBucket(_, _, _)
CrcBucket(groups, size, file_list) ==
    IF file_list = << >> THEN groups
    ELSE LET p == Head(file_list)
             h == Crc32Hash(p)
         IN  CrcBucket(IF h # None
                         THEN DictAppend(groups, << size, h[1] >>, p)
                         ELSE groups,
                       size, Tail(file_list))

CrcStep ==
    /\ pc = "crc"
    /\ IF gi > Len(size_groups) \/ cancelled
         THEN /\ pc' = "submit"
              /\ gi' = 1
              /\ Emit(60, "Calculating MD5 hashes...")
              /\ potential' = MultiGroups(crc_groups)
              /\ UNCHANGED crc_groups
         ELSE /\ crc_groups' =
                    IF TooFew(size_groups[gi].val) THEN crc_groups
                    ELSE CrcBucket(crc_groups, size_groups[gi].key,
                                   size_groups[gi].val)
              /\ gi' = gi + 1
              /\ UNCHANGED << pc, potential, progress >>
    /\ UNCHANGED << tree, rootKind, root_folder, broken, cancelled, entryFlag, total_items,
                    k, files, size_groups, futures, md5_groups, outcome, result >>
    /\ UNCHANGED << prev, cancelAt, guiVars, cleanVars >>

\* executor.submit(self._md5_hash, file_path) for every file of a group
NewFutures(group) ==
    [i \in 1 .. Len(group) |->
        [path |-> group[i], started |-> FALSE, done |-> FALSE, val |-> None]]

\* _hash_files, pass 2: one iteration of the submission loop.
SubmitStep ==
    /\ pc = "submit"
    /\ IF gi > Len(potential) \/ cancelled
         THEN /\ pc' = "collect"
              /\ k' = 1
              /\ UNCHANGED << gi, futures >>
         ELSE /\ futures' = futures \o NewFutures(potential[gi])
              /\ gi' = gi + 1
              /\ UNCHANGED << pc, k >>
    /\ UNCHANGED << tree, rootKind, root_folder, broken, cancelled, entryFlag, total_items,
                    files, size_groups, crc_groups, potential, md5_groups,
                    outcome, result, progress >>
    /\ UNCHANGED << prev, cancelAt, guiVars, cleanVars >>

\* The tasks a pool worker is running.
Running == { j \in DOMAIN futures : futures[j].started /\ ~ futures[j].done }

\* A pool worker takes submitted task i from the work queue and calls
\* _md5_hash.  The queue is first in, first out, and the pool has at most
\* max_workers workers.  The pool never looks at the cancellation flag.
Md5Start(i) ==
    /\ ~ futures[i].started
    /\ \A j \in 1 .. i - 1 : futures[j].started
    /\ Cardinality(Running) < max_workers
    /\ futures' = [futures EXCEPT ![i].started = TRUE]
    /\ UNCHANGED << tree, rootKind, root_folder, broken, cancelled, entryFlag, pc,
                    total_items, k, files, size_groups, crc_groups, potential,
                    gi, md5_groups, outcome, result, progress >>
    /\ UNCHANGED << prev, cancelAt, guiVars, cleanVars >>

\* _md5_hash for task i returns in its worker; the tasks that run finish in
\* any order.
Md5Task(i) ==
    /\ futures[i].started
    /\ ~ futures[i].done
    /\ futures' = [futures EXCEPT ![i].done = TRUE,
                                  ![i].val = Md5Hash(futures[i].path)]
    /\ UNCHANGED << tree, rootKind, root_folder, broken, cancelled, entryFlag, pc,
                    total_items, k, files, size_groups, crc_groups, potential,
                    gi, md5_groups, outcome, result, progress >>
    /\ UNCHANGED << prev, cancelAt, guiVars, cleanVars >>

CollectResultBySize(groups, fut) ==
    IF fut.val # None
      THEN DictAppend(groups, tree[fut.path].size, fut.path)
      ELSE groups

\* "if hash_value: md5_groups[hash_value].append(file_path)"
CollectResult(groups, fut) ==
    IF fut.val # None THEN DictAppend(groups, fut.val[1], fut.path) ELSE groups

ReadyAtOnce(fut) == TRUE

\* future.result() returns once the task is done.
Ready(fut) == fut.done

\* _hash_files, pass 2: one iteration of the loop over futures.items(),
\* which blocks in future.result() until the task is done.
CollectStep ==
    /\ pc = "collect"
    /\ IF k > Len(futures) \/ cancelled
         THEN /\ pc' = "join"
              /\ UNCHANGED << k, md5_groups, progress >>
         ELSE /\ Ready(futures[k])
              /\ md5_groups' = CollectResult(md5_groups, futures[k])
              /\ IF (k - 1) % 10 = 0
                   THEN Emit(60 + (((k - 1) * 40) \div Len(futures)),
                             "Processing hashes...")
                   ELSE UNCHANGED progress
              /\ k' = k + 1
              /\ pc' = pc
    /\ UNCHANGED << tree, rootKind, root_folder, broken, cancelled, entryFlag, total_items,
                    files, size_groups, crc_groups, potential, gi, futures,
                    outcome, result >>
    /\ UNCHANGED << prev, cancelAt, guiVars, cleanVars >>

NoWait == TRUE

\* executor.shutdown(wait=True) has joined the workers: every submitted
\* task has finished.
AllTasksDone == \A i \in 1 .. Len(futures) : futures[i].done

\* Leaving the "with ThreadPoolExecutor" block: shutdown(wait=True) returns
\* when every submitted task has finished.
JoinPool ==
    /\ pc = "join"
    /\ AllTasksDone
    /\ pc' = "check2"
    /\ UNCHANGED << tree, rootKind, root_folder, broken, cancelled, entryFlag, total_items,
                    k, files, size_groups, crc_groups, potential, gi, futures,
                    md5_groups, outcome, result, progress >>
    /\ UNCHANGED << prev, cancelAt, guiVars, cleanVars >>

\* scan_folder: "if self.cancelled: return ScanResult(0, 0, [], 0)" after
\* hashing.
CheckAfterHashing ==
    /\ pc = "check2"
    /\ IF cancelled
         THEN /\ pc' = "done"
              /\ outcome' = "cancelled"
              /\ result' = EmptyResult
         ELSE /\ pc' = "finish"
              /\ UNCHANGED << outcome, result >>
    /\ UNCHANGED << tree, rootKind, root_folder, broken, cancelled, entryFlag, total_items,
                    k, files, size_groups, crc_groups, potential, gi, futures,
                    md5_groups, progress >>
    /\ UNCHANGED << prev, cancelAt, guiVars, cleanVars >>

EveryGroup == [i \in 1 .. Len(md5_groups) |-> md5_groups[i].val]

\* duplicates = [group for group in hash_groups.values() if len(group) > 1]
Duplicates == MultiGroups(md5_groups)

\* self._update_progress(90, "Identifying duplicates...")
Identifying == [pct |-> 90, msg |-> "Identifying duplicates..."]

\* scan_folder, step 3 and the statistics: os.path.getsize of every
\* discovered file is outside any per-file handler, so one failing file
\* reaches "except Exception", which reports 0 % and re-raises.
Finish ==
    /\ pc = "finish"
    /\ pc' = "done"
    /\ IF \E i \in 1 .. Len(files) : files[i] \in broken
         THEN /\ outcome' = "raised"
              /\ progress' = progress \o << Identifying, [pct |-> 0, msg |-> "Error during scan"] >>
              /\ UNCHANGED result
         ELSE /\ outcome' = "completed"
              /\ progress' = progress \o << Identifying, [pct |-> 100, msg |-> "Scan complete!"] >>
              /\ result' = [total_files |-> Len(files),
                            total_size |-> SumSizes(files),
                            duplicates |-> Duplicates,
                            space_saved |-> SumTails(Duplicates)]
    /\ UNCHANGED << tree, rootKind, root_folder, broken, cancelled, entryFlag, total_items,
                    k, files, size_groups, crc_groups, potential, gi, futures,
                    md5_groups >>
    /\ UNCHANGED << prev, cancelAt, guiVars, cleanVars >>

ScanStep ==
    \/ ScanStart
    \/ CountStep
    \/ WalkStep
    \/ CheckAfterDiscovery
    \/ StatStep
    \/ CrcStep
    \/ SubmitStep
    \/ \E i \in DOMAIN futures : Md5Start(i)
    \/ \E i \in DOMAIN futures : Md5Task(i)
    \/ CollectStep
    \/ JoinPool
    \/ CheckAfterHashing
    \/ Finish

Environment ==
    \/ CancelScan /\ UNCHANGED cancelAt
    \/ \E p \in Paths : FileBreaks(p)

Next == ScanStep \/ Environment

Spec == Init /\ [][Next]_vars

\* Trees of files that meet in a size bucket, in a (size, CRC32) group or in
\* neither, left alone by the environment.
InitHash ==
    /\ rootKind = "dir"
    /\ root_folder = PlainRoot
    /\ tree \in [1 .. HashFiles -> HashKinds]
    /\ InitScan
    /\ InitGui
    /\ InitNoCleanup

SpecHash == InitHash /\ [][ScanStep]_vars

\* The steps of the thread that runs scan_folder, and those of the workers
\* of its pool.
ScanThread ==
    \/ ScanStart
    \/ CountStep
    \/ WalkStep
    \/ CheckAfterDiscovery
    \/ StatStep
    \/ CrcStep
    \/ SubmitStep
    \/ CollectStep
    \/ JoinPool
    \/ CheckAfterHashing
    \/ Finish

PoolWorkers ==
    \/ \E i \in DOMAIN futures : Md5Start(i)
    \/ \E i \in DOMAIN futures : Md5Task(i)

InitFair ==
    /\ rootKind \in RootKinds
    /\ root_folder = PlainRoot
    /\ tree \in IF rootKind = "dir" THEN [1 .. FairFiles -> RepeatKinds] ELSE {<< >>}
    /\ InitScan
    /\ InitGui
    /\ InitNoCleanup

\* The engine with a thread that keeps running scan_folder, every call it
\* makes returning, and pool workers that keep taking and finishing tasks,
\* while the environment cancels and breaks files as it likes.
SpecFair ==
    /\ InitFair
    /\ [][Next]_vars
    /\ WF_vars(ScanThread)
    /\ WF_vars(PoolWorkers)

\* The same engine on every tree of up to MaxFiles files, left alone by the
\* environment.
InitTrees ==
    /\ rootKind = "dir"
    /\ root_folder = PlainRoot
    /\ tree \in [1 .. MaxFiles -> FileKinds]
    /\ InitScan
    /\ InitGui
    /\ InitNoCleanup

SpecTrees == InitTrees /\ [][ScanStep]_vars

\* scan_folder has returned and its locals are gone; the caller keeps the
\* ScanResult, and may call scan_folder on the same engine once more.
Rescan ==
    /\ pc = "done"
    /\ prev = None
    /\ prev' = Some([outcome |-> outcome, result |-> result,
                     cancelAt |-> cancelAt])
    /\ pc' = "idle"
    /\ entryFlag' = FALSE
    /\ total_items' = 0
    /\ k' = 0
    /\ files' = << >>
    /\ size_groups' = << >>
    /\ crc_groups' = << >>
    /\ potential' = << >>
    /\ gi' = 0
    /\ futures' = << >>
    /\ md5_groups' = << >>
    /\ outcome' = "none"
    /\ result' = EmptyResult
    /\ progress' = << >>
    /\ UNCHANGED << tree, rootKind, root_folder, broken, cancelled, cancelAt >>
    /\ UNCHANGED << guiVars, cleanVars >>

InitRepeat ==
    /\ rootKind = "dir"
    /\ root_folder = PlainRoot
    /\ tree \in [1 .. MaxFiles -> RepeatKinds]
    /\ InitScan
    /\ InitGui
    /\ InitNoCleanup

\* cancel_scan() with the record of where the running scan was when the
\* flag went from false to true.
CancelNoted ==
    /\ CancelScan
    /\ cancelAt' = IF cancelled \/ pc \in {"idle", "done"}
                     THEN cancelAt
                     ELSE Some(Point)

NextRepeat ==
    \/ ScanStep
    \/ CancelNoted
    \/ Rescan

\* Two scans of one untouched tree, each of which may be cancelled.
SpecRepeat == InitRepeat /\ [][NextRepeat]_vars

\* Another program creates a file under the root between the two passes of
\* discover_files: the second os.walk lists it, the first one did not.
FileAppears(f) ==
    /\ pc = "walk"
    /\ k = 1
    /\ Len(tree) < total_items + MaxNew
    /\ tree' = Append(tree, f)
    /\ UNCHANGED << rootKind, root_folder, broken, cancelled, entryFlag, pc, total_items, k,
                    files, size_groups, crc_groups, potential, gi, futures,
                    md5_groups, outcome, result, progress >>
    /\ UNCHANGED << prev, cancelAt, guiVars, cleanVars >>

InitProgress ==
    /\ rootKind = "dir"
    /\ root_folder = PlainRoot
    /\ tree \in { [p \in 1 .. n |-> Common] : n \in {ManyFiles - 2, ManyFiles} }
    /\ InitScan
    /\ InitGui
    /\ InitNoCleanup

NextProgress ==
    \/ ScanStep
    \/ FileAppears(Common)

\* Scans of trees of about ManyFiles files that are all duplicates of one
\* another, left alone but for a file that appears.
SpecProgress == InitProgress /\ [][NextProgress]_vars

\* os.walk lists a directory's files before it descends: a directory comes
\* after the directories above it, and the files below one directory are
\* listed together.
IsPrefix(a, b) == Len(a) <= Len(b) /\ SubSeq(b, 1, Len(a)) = a

InWalkOrder(t) ==
    /\ \A i, j \in DOMAIN t :
          (i < j /\ IsPrefix(t[j].dir, t[i].dir)) => t[j].dir = t[i].dir
    /\ \A i, j, l \in DOMAIN t :
          \A n \in 1 .. Len(t[i].dir) :
              LET top == SubSeq(t[i].dir, 1, n)
              IN  (i < j /\ j < l /\ IsPrefix(top, t[l].dir)) => IsPrefix(top, t[j].dir)

InitWalk ==
    /\ rootKind = "dir"
    /\ root_folder \in RootFolders
    /\ tree \in { t \in [1 .. WalkFiles -> WalkKinds] : InWalkOrder(t) }
    /\ InitScan
    /\ InitGui
    /\ InitNoCleanup

NextWalk ==
    \/ ScanStep
    \/ CancelNoted

\* Scans of trees with directories below the root, some of them of a name
\* in the skip-set, under a root path of either spelling; the scan may be
\* cancelled at any point.
SpecWalk == InitWalk /\ [][NextWalk]_vars

\* ------------------------------------------------------------- MainWindow
\* The main window shares one ScanEngine among the worker threads it starts.
\* A worker's scan is followed through the places where scan_folder writes
\* or reads the flag and where it reports.
InScan(t) == wpc[t] \in {"discover", "hash", "finish"}

\* _start_scan: the command of the Start Scan button, which Tk runs only
\* while the button is enabled.  Without a usable folder it returns after an
\* error dialog; otherwise it starts a new worker thread.
StartScan ==
    /\ scan_btn = "normal"
    /\ \E t \in Scans, folderOk \in BOOLEAN :
          /\ wpc[t] = "none"
          /\ \A u \in Scans : u < t => wpc[u] # "none"
          /\ IF folderOk
               THEN /\ scanning' = TRUE
                    /\ scan_btn' = "disabled"
                    /\ cancel_btn' = "normal"
                    /\ status' = "Scanning..."
                    /\ wpc' = [wpc EXCEPT ![t] = "boot"]
               ELSE UNCHANGED << scanning, scan_btn, cancel_btn, status, wpc >>
    /\ UNCHANGED << cancelled, engineVars, wres, events, cancelReq, reported >>

\* _cancel_scan: the command of the Cancel button.
CancelPressed ==
    /\ cancel_btn = "normal"
    /\ IF scanning
         THEN /\ cancelled' = TRUE
              /\ scanning' = FALSE
              /\ scan_btn' = "normal"
              /\ cancel_btn' = "disabled"
              /\ status' = "Scan cancelled"
              /\ cancelReq' = [t \in Scans |-> cancelReq[t] \/ InScan(t)]
         ELSE UNCHANGED << cancelled, scanning, scan_btn, cancel_btn, status,
                           cancelReq >>
    /\ UNCHANGED << engineVars, wpc, wres, events, reported >>

\* _scan_worker up to scan_folder's first statements: unless reading the
\* size setting raises, the flag is reset and 0 % "Starting scan..." is
\* reported.
WorkerEnter(t) ==
    /\ wpc[t] = "boot"
    /\ \E settingsOk \in BOOLEAN :
          IF settingsOk
            THEN /\ cancelled' = FALSE
                 /\ status' = "Starting scan..."
                 /\ wpc' = [wpc EXCEPT ![t] = "discover"]
                 /\ UNCHANGED wres
            ELSE /\ wpc' = [wpc EXCEPT ![t] = "returned"]
                 /\ wres' = [wres EXCEPT ![t] = "raised"]
                 /\ UNCHANGED << cancelled, status >>
    /\ UNCHANGED << engineVars, scanning, scan_btn, cancel_btn, events,
                    cancelReq, reported >>

\* discover_files and the check of the flag that follows it.
WorkerDiscover(t) ==
    /\ wpc[t] = "discover"
    /\ IF cancelled
         THEN /\ wpc' = [wpc EXCEPT ![t] = "returned"]
              /\ wres' = [wres EXCEPT ![t] = "cancelled"]
         ELSE /\ wpc' = [wpc EXCEPT ![t] = "hash"]
              /\ UNCHANGED wres
    /\ UNCHANGED << cancelled, engineVars, scanning, scan_btn, cancel_btn, status,
                    events, cancelReq, reported >>

\* _hash_files, which reports its two passes, and the check of the flag
\* that follows it.
WorkerHash(t) ==
    /\ wpc[t] = "hash"
    /\ status' = "Calculating MD5 hashes..."
    /\ IF cancelled
         THEN /\ wpc' = [wpc EXCEPT ![t] = "returned"]
              /\ wres' = [wres EXCEPT ![t] = "cancelled"]
         ELSE /\ wpc' = [wpc EXCEPT ![t] = "finish"]
              /\ UNCHANGED wres
    /\ UNCHANGED << cancelled, engineVars, scanning, scan_btn, cancel_btn, events,
                    cancelReq, reported >>

\* The rest of scan_folder: either a getsize raises, and the handler reports
\* the error and re-raises, or 100 % "Scan complete!" is reported and the
\* result returned.
WorkerFinish(t) ==
    /\ wpc[t] = "finish"
    /\ wpc' = [wpc EXCEPT ![t] = "returned"]
    /\ \E raises \in BOOLEAN :
          IF raises
            THEN /\ status' = "Error during scan"
                 /\ wres' = [wres EXCEPT ![t] = "raised"]
                 /\ UNCHANGED reported
            ELSE /\ status' = "Scan complete!"
                 /\ wres' = [wres EXCEPT ![t] = "completed"]
                 /\ reported' = [reported EXCEPT ![t] = TRUE]
    /\ UNCHANGED << cancelled, engineVars, scanning, scan_btn, cancel_btn, events,
                    cancelReq >>

\* _scan_worker after scan_folder: root.after(0, ...) queues _scan_complete
\* for whatever result was returned, or _scan_error for an exception.
WorkerPost(t) ==
    /\ wpc[t] = "returned"
    /\ wpc' = [wpc EXCEPT ![t] = "exited"]
    /\ events' = Append(events,
                        [kind |-> IF wres[t] = "raised" THEN "error" ELSE "complete",
                         session |-> t])
    /\ UNCHANGED << cancelled, engineVars, scanning, scan_btn, cancel_btn, status,
                    wres, cancelReq, reported >>

\* The main loop runs the oldest queued callback: _scan_complete or
\* _scan_error.
HandleEvent ==
    /\ events # << >>
    /\ events' = Tail(events)
    /\ scanning' = FALSE
    /\ scan_btn' = "normal"
    /\ cancel_btn' = "disabled"
    /\ IF Head(events).kind = "complete"
         THEN /\ status' = "Scan completed"
              /\ reported' = [reported EXCEPT ![Head(events).session] = TRUE]
         ELSE /\ status' = "Scan failed"
              /\ UNCHANGED reported
    /\ UNCHANGED << cancelled, engineVars, wpc, wres, cancelReq >>

NextGui ==
    \/ StartScan
    \/ CancelPressed
    \/ HandleEvent
    \/ \E t \in Scans :
          \/ WorkerEnter(t)
          \/ WorkerDiscover(t)
          \/ WorkerHash(t)
          \/ WorkerFinish(t)
          \/ WorkerPost(t)

InitMainWindow ==
    /\ rootKind = "dir"
    /\ root_folder = PlainRoot
    /\ tree = << >>
    /\ InitScan
    /\ InitGui
    /\ InitNoCleanup

SpecGui == InitMainWindow /\ [][NextGui]_vars

\* ---------------------------------------------------------------- cleanup
\* A path is a directory and a file name; directory 0 is the destination
\* folder of move_duplicates.  A file name is a stem and the numeric
\* suffixes that follow it, so that "photo_1" is the stem "photo" with the
\* suffix 1; all names have the same extension.
Name(stem, sfx) == [stem |-> stem, sfx |-> sfx]

PathOf(dir, name) == [dir |-> dir, name |-> name]

\* os.path.join(destination, ...)
InDest(name) == PathOf(0, name)

\* f"{name}_{counter}{ext}"
Suffixed(name, counter) == [name EXCEPT !.sfx = Append(@, counter)]

Exists(path) == path \in DOMAIN fsys

\* "while os.path.exists(dest_path): ...; counter += 1"
RECURSIVE NextFree(_, _)
NextFree(name, counter) ==
    IF Exists(InDest(Suffixed(name, counter)))
      THEN NextFree(name, counter + 1)
      ELSE InDest(Suffixed(name, counter))

DestPathNoProbe(duplicate) == InDest(duplicate.name)

\* The destination path move_duplicates settles on for a duplicate.
DestPath(duplicate) ==
    IF Exists(InDest(duplicate.name))
      THEN NextFree(duplicate.name, 1)
      ELSE InDest(duplicate.name)

RestWithOriginal(group) == group

RemovedNothing(fs, src) == fs

\* group[1:]
Rest(group) == Tail(group)

\* shutil.move(duplicate, dest_path) succeeding
Moved(fs, src, dst) ==
    [q \in (DOMAIN fs \ {src}) \cup {dst} |-> IF q = dst THEN fs[src] ELSE fs[q]]

\* os.remove(duplicate) succeeding
Removed(fs, src) == [q \in DOMAIN fs \ {src} |-> fs[q]]

\* The groups a scan can return: at least two members each, no path twice.
Universe == { PathOf(d, Name("photo", << >>)) : d \in 0 .. MaxDirs }

GroupChoices ==
    { g \in UNION { [1 .. n -> Universe] : n \in 2 .. 3 } :
        \A i, j \in DOMAIN g : i # j => g[i] # g[j] }

\* The folders other than the destination are alike, so of the lists that
\* differ only in how these folders are numbered one is kept: the one that
\* meets folders 1, 2, ... in this order.
InFolderOrder(d) ==
    LET flat == IF Len(d) = 1 THEN d[1] ELSE d[1] \o d[2]
        away == SelectSeq(flat, LAMBDA p : p.dir # 0)
    IN  \A i \in DOMAIN away : away[i].dir = i

DupLists ==
    { d \in { << g >> : g \in GroupChoices }
              \cup { e \in { << g, h >> : g \in GroupChoices, h \in GroupChoices } :
                        Members(e[1]) \cap Members(e[2]) = {} } :
        InFolderOrder(d) }

\* Files that may lie in the destination folder beforehand.
Strangers == { InDest(Name("photo", << >>)), InDest(Name("photo", << 1 >>)) }

RECURSIVE GroupFiles(_, _)
GroupFiles(groups, n) ==
    IF n > Len(groups) THEN << >>
    ELSE LET g == groups[n]
             here == [p \in Members(g) |-> [origin |-> p, size |-> n]]
             rest == GroupFiles(groups, n + 1)
         IN  [p \in DOMAIN here \cup DOMAIN rest |->
                IF p \in DOMAIN here THEN here[p] ELSE rest[p]]

InitCleanup ==
    /\ rootKind = "dir"
    /\ root_folder = PlainRoot
    /\ tree = << >>
    /\ InitScan
    /\ InitGui
    /\ dups \in DupLists
    /\ \E extra \in SUBSET Strangers :
          LET mine == GroupFiles(dups, 1)
          IN  fsys = [p \in DOMAIN mine \cup extra |->
                       IF p \in DOMAIN mine THEN mine[p]
                       ELSE [origin |-> p, size |-> 3]]
    /\ fs0 = fsys
    /\ mode = "none"
    /\ cl_pc = "idle"
    /\ cgi = 0
    /\ cj = 0
    /\ op_count = 0
    /\ op_size = 0
    /\ attempts = << >>

FlagReset == FALSE

\* move_duplicates and delete_duplicates start with the flag as they find
\* it: neither assigns self.cancelled.
FlagKept == cancelled

\* move_duplicates is called: os.makedirs(destination, exist_ok=True), which
\* may raise out of the method.
MoveStart ==
    /\ cl_pc = "idle"
    /\ mode' = "move"
    /\ cancelled' = FlagKept
    /\ \E made \in BOOLEAN :
          cl_pc' = IF made THEN "group" ELSE "raised"
    /\ cgi' = 1
    /\ UNCHANGED << dataVars, guiVars, dups, fsys, fs0, cj, op_count, op_size,
                    attempts >>

\* delete_duplicates is called.
DeleteStart ==
    /\ cl_pc = "idle"
    /\ mode' = "delete"
    /\ cancelled' = FlagKept
    /\ cl_pc' = "group"
    /\ cgi' = 1
    /\ UNCHANGED << dataVars, guiVars, dups, fsys, fs0, cj, op_count, op_size,
                    attempts >>

NeverCancelled == FALSE

\* "if self.cancelled: break" at the head of the loop over the groups
GroupCancelled == cancelled

\* "for group in duplicates: if self.cancelled: break"
GroupStep ==
    /\ cl_pc = "group"
    /\ IF cgi > Len(dups) \/ GroupCancelled
         THEN /\ cl_pc' = "done"
              /\ UNCHANGED cj
         ELSE /\ cl_pc' = "file"
              /\ cj' = 1
    /\ UNCHANGED << cancelled, dataVars, guiVars, dups, fsys, fs0, mode, cgi,
                    op_count, op_size, attempts >>

Uncaught == "raised"

\* "except (OSError, PermissionError) as e: print(...); continue": the loop
\* over group[1:] goes on.
Caught == "file"

\* The record of one run of the loop body: the duplicate, whether its file
\* left its path, and the value of the flag at that moment.
Attempt(duplicate, gone) ==
    [path |-> duplicate, gone |-> gone, flag |-> cancelled]

\* move_duplicates: one iteration of "for duplicate in group[1:]".  The move
\* raises when the source is gone and may raise otherwise; after a move the
\* getsize of the new path may raise as well.
MoveFile ==
    /\ cl_pc = "file"
    /\ mode = "move"
    /\ IF cj > Len(Rest(dups[cgi]))
         THEN /\ cl_pc' = "group"
              /\ cgi' = cgi + 1
              /\ UNCHANGED << cj, fsys, op_count, op_size, attempts >>
         ELSE LET duplicate == Rest(dups[cgi])[cj]
                  dest_path == DestPath(duplicate)
              IN  /\ cj' = cj + 1
                  /\ UNCHANGED cgi
                  /\ \E moved \in BOOLEAN, sized \in BOOLEAN :
                        IF moved /\ Exists(duplicate)
                          THEN /\ fsys' = Moved(fsys, duplicate, dest_path)
                               /\ op_count' = op_count + 1
                               /\ op_size' = IF sized
                                               THEN op_size + fsys[duplicate].size
                                               ELSE op_size
                               /\ cl_pc' = IF sized THEN cl_pc ELSE Caught
                               /\ attempts' = Append(attempts, Attempt(duplicate, TRUE))
                          ELSE /\ cl_pc' = Caught
                               /\ attempts' = Append(attempts, Attempt(duplicate, FALSE))
                               /\ UNCHANGED << fsys, op_count, op_size >>
    /\ UNCHANGED << cancelled, dataVars, guiVars, dups, fs0, mode >>

\* delete_duplicates: one iteration of "for duplicate in group[1:]": getsize
\* and remove, either of which may raise.
DeleteFile ==
    /\ cl_pc = "file"
    /\ mode = "delete"
    /\ IF cj > Len(Rest(dups[cgi]))
         THEN /\ cl_pc' = "group"
              /\ cgi' = cgi + 1
              /\ UNCHANGED << cj, fsys, op_count, op_size, attempts >>
         ELSE LET duplicate == Rest(dups[cgi])[cj]
              IN  /\ cj' = cj + 1
                  /\ UNCHANGED cgi
                  /\ \E removed \in BOOLEAN :
                        IF removed /\ Exists(duplicate)
                          THEN /\ fsys' = Removed(fsys, duplicate)
                               /\ op_count' = op_count + 1
                               /\ op_size' = op_size + fsys[duplicate].size
                               /\ cl_pc' = cl_pc
                               /\ attempts' = Append(attempts, Attempt(duplicate, TRUE))
                          ELSE /\ cl_pc' = Caught
                               /\ attempts' = Append(attempts, Attempt(duplicate, FALSE))
                               /\ UNCHANGED << fsys, op_count, op_size >>
    /\ UNCHANGED << cancelled, dataVars, guiVars, dups, fs0, mode >>

NextCleanup ==
    \/ MoveStart
    \/ DeleteStart
    \/ GroupStep
    \/ MoveFile
    \/ DeleteFile
    \/ CancelScan /\ UNCHANGED cancelAt

SpecCleanup == InitCleanup /\ [][NextCleanup]_vars

\* ------------------------------------------------------------------ claims
Admitted == Members(files)

Content(p) == << tree[p].size, tree[p].crc, tree[p].md5, tree[p].variant >>

Groups == { result.duplicates[n] : n \in DOMAIN result.duplicates }

InSomeGroup(p) == \E g \in Groups : p \in Members(g)

\* C1: no duplicate group of the returned ScanResult holds two files of
\* different byte sizes, whatever CRC32 and MD5 values the files have.
C1_GroupsHaveOneSize ==
    \A g \in Groups : \A p, q \in Members(g) : tree[p].size = tree[q].size

\* The digests the pool computed in this scan for the members of group g.
DigestsOf(g) ==
    { futures[i].val : i \in { j \in DOMAIN futures : futures[j].path \in Members(g) } }

\* C2: every member of a returned duplicate group was hashed in this scan,
\* and the MD5 digests computed for the members of one group are one and the
\* same digest.
C2_GroupsHaveOneDigest ==
    \A g \in Groups :
        /\ \A p \in Members(g) :
              \E i \in DOMAIN futures : futures[i].path = p /\ futures[i].done
        /\ Cardinality(DigestsOf(g)) = 1
        /\ None \notin DigestsOf(g)

\* A completed scan that returned a group while it had collected two
\* different digests.
C2_Witness ==
    /\ outcome = "completed"
    /\ Groups # {}
    /\ Len(md5_groups) >= 2

C4_GroupsInDiscoveryOrder ==
    \A g \in Groups : \A i, j \in DOMAIN g : i < j => g[i] < g[j]

\* C5: a scan entered with the cancellation flag already set returns a
\* ScanResult with zero files and zero duplicate groups.
C5_CancelBeforeStartIsEmpty ==
    (pc = "done" /\ entryFlag /\ outcome # "raised") =>
        (result.total_files = 0 /\ result.duplicates = << >>)

\* C8: a scan of a directory never raises, whichever single file fails at
\* whichever moment.
C8_FileFailureNeverRaises ==
    rootKind = "dir" => outcome # "raised"

\* C9: a scan whose root is missing or is not a directory ends by raising.
C9_BadRootRaises ==
    (pc = "done" /\ rootKind # "dir") => outcome = "raised"

\* C6: while a scan_folder invocation is running the flag never goes from
\* true back to false.
C6_FlagNotResetMidScan ==
    [][\A t \in Scans : (InScan(t) /\ InScan(t)' /\ cancelled) => cancelled']_vars

\* C7: a session that was running when a cancel request was issued never
\* reports completion afterwards.
C7_CancelledNeverCompletes ==
    \A t \in Scans : cancelReq[t] => ~ reported[t]

\* C10: whatever fails and whenever the operation is cancelled, the file at
\* index 0 of every group is still at its path and is still the file that
\* was there when move_duplicates or delete_duplicates was called.
C10_OriginalsUntouched ==
    \A n \in DOMAIN dups :
        /\ Exists(dups[n][1])
        /\ fsys[dups[n][1]] = fs0[dups[n][1]]

\* A move into the folder that holds an original of the same name, in a run
\* that was cancelled after its first group.
C10_Witness ==
    /\ cl_pc = "done"
    /\ mode = "move"
    /\ cancelled
    /\ Len(dups) = 2
    /\ op_count >= 1
    /\ dups[1][1].dir = 0

\* ---------------------------------------------------------- cleanup claims
Returned == cl_pc = "done"

AttemptPaths == [i \in DOMAIN attempts |-> attempts[i].path]

\* The group of the list passed in that holds a path.
GroupOf(path) == CHOOSE n \in DOMAIN dups : path \in Members(dups[n])

\* The duplicates of the first m groups, in the order of the two loops.
RECURSIVE FlatRests(_)
FlatRests(m) == IF m = 0 THEN << >> ELSE FlatRests(m - 1) \o Tail(dups[m])

OnlyOriginalsLeft ==
    \A n \in DOMAIN dups :
        /\ Exists(dups[n][1])
        /\ \A i \in 2 .. Len(dups[n]) : ~ Exists(dups[n][i])

Gone == { p \in DOMAIN fs0 : ~ (Exists(p) /\ fsys[p].origin = p) }

RECURSIVE SizeSum(_)
SizeSum(ps) ==
    IF ps = {} THEN 0
    ELSE LET p == CHOOSE x \in ps : TRUE
         IN  fs0[p].size + SizeSum(ps \ {p})

\* C12: when move_duplicates or delete_duplicates returns, the count is the
\* number of files that were moved or deleted and the byte total is the sum
\* of the sizes of exactly those files, whatever failed and whenever the
\* batch was cancelled.
C12_TotalsAreAccurate ==
    Returned => (op_count = Cardinality(Gone) /\ op_size = SizeSum(Gone))

\* <name><ext> for n = 0 and <name>_<n><ext> for n >= 1, in the destination
Candidate(name, n) == IF n = 0 THEN InDest(name) ELSE InDest(Suffixed(name, n))

\* The first path of that sequence at which no file exists.
FirstFree(name) ==
    Candidate(name,
              CHOOSE n \in 0 .. Cardinality(DOMAIN fsys) :
                  /\ ~ Exists(Candidate(name, n))
                  /\ \A m \in 0 .. n - 1 : Exists(Candidate(name, m)))

\* C13: every step of move_duplicates leaves each file that stays at its
\* path as it was, and a path that comes into existence is the first free
\* one of photo, photo_1, photo_2, ... in the destination for the name of
\* the duplicate that left its path, and holds that duplicate.
C13_FirstFreeNameNoOverwrite ==
    [][mode = "move" =>
          /\ \A p \in DOMAIN fsys \cap DOMAIN fsys' : fsys'[p] = fsys[p]
          /\ \A p \in DOMAIN fsys' \ DOMAIN fsys :
                \E src \in DOMAIN fsys \ DOMAIN fsys' :
                    /\ p = FirstFree(src.name)
                    /\ fsys'[p] = fsys[src]]_vars

\* The destination held photo beforehand; a first duplicate named photo was
\* placed at photo_1 and a second one at photo_2, and the file that was
\* there is as it was.
C13_Witness ==
    /\ Returned
    /\ mode = "move"
    /\ InDest(Name("photo", << >>)) \in DOMAIN fs0
    /\ InDest(Name("photo", << 1 >>)) \notin DOMAIN fs0
    /\ Exists(InDest(Name("photo", << >>)))
    /\ fsys[InDest(Name("photo", << >>))] = fs0[InDest(Name("photo", << >>))]
    /\ Exists(InDest(Name("photo", << 1 >>)))
    /\ fsys[InDest(Name("photo", << 1 >>))].origin.dir # 0
    /\ Exists(InDest(Name("photo", << 2 >>)))
    /\ fsys[InDest(Name("photo", << 2 >>))].origin.dir # 0

\* C14: a per-file error never ends the operation.  Only the makedirs of
\* move_duplicates raises, before any duplicate was tried; and when the
\* operation returns, the loop body has run for every duplicate of the
\* groups it went through, which are all the groups unless the flag is set.
C14_FileErrorNeverAborts ==
    /\ cl_pc = "raised" => attempts = << >>
    /\ Returned =>
          \E m \in 0 .. Len(dups) :
              /\ AttemptPaths = FlatRests(m)
              /\ m < Len(dups) => cancelled

\* The first duplicate failed, and the operation went on to the other
\* duplicate of its group and to the following group.
C14_Witness ==
    /\ Returned
    /\ ~ cancelled
    /\ Len(dups) = 2
    /\ Len(dups[1]) = 3
    /\ Len(attempts) = Len(FlatRests(2))
    /\ ~ attempts[1].gone
    /\ attempts[2].gone
    /\ attempts[Len(attempts)].gone

\* C15: the loop body that runs while the flag is set is followed only by
\* duplicates of the same group, all of which are tried before the
\* operation returns; and with the flag set at the head of the loop over
\* the groups no further duplicate is tried.
C15_CancelOnlyBetweenGroups ==
    [][/\ \A i, j \in DOMAIN attempts' :
              (i < j /\ attempts'[i].flag) =>
                  GroupOf(attempts'[j].path) = GroupOf(attempts'[i].path)
       /\ Returned' =>
              \A i \in DOMAIN attempts' :
                  attempts'[i].flag =>
                      Members(Tail(dups[GroupOf(attempts'[i].path)]))
                          \subseteq { attempts'[j].path : j \in DOMAIN attempts' }
       /\ (cl_pc = "group" /\ cancelled) =>
              (attempts' = attempts /\ cl_pc' # "file")]_vars

\* The flag was set after the first of the two duplicates of the first
\* group: the second one was still tried, the second group was not.
C15_Witness ==
    /\ Returned
    /\ Len(dups) = 2
    /\ Len(dups[1]) = 3
    /\ Len(attempts) = 2
    /\ ~ attempts[1].flag
    /\ attempts[2].flag
    /\ attempts[2].gone
    /\ \A p \in Members(dups[2]) : Exists(p) /\ fsys[p] = fs0[p]

\* -------------------------------------------------------- pool and flag
\* C16: once the flag is set, no submitted digest computation that a worker
\* has not yet started is started.
C16_NoStartAfterCancel ==
    [][\A i \in DOMAIN futures :
          (cancelled /\ ~ futures[i].started) => ~ futures'[i].started]_vars

\* ------------------------------------------------------------- two scans
Pct(i) == progress[i].pct

\* The ScanResult and the ending of the two scans: the one kept by the
\* caller and the one that has just returned.
Earlier == prev[1]

Later == [outcome |-> outcome, result |-> result, cancelAt |-> cancelAt]

TwoScansDone == prev # None /\ pc = "done"

\* Point a of a scan comes before point b.
Before(a, b) == a[1] < b[1] \/ (a[1] = b[1] /\ a[2] < b[2])

\* Scan x had the flag set at an earlier point than scan y, which had it set
\* later or not at all.
CancelledBefore(x, y) ==
    /\ x.cancelAt # None
    /\ y.cancelAt = None \/ Before(x.cancelAt[1], y.cancelAt[1])

NoLarger(x, y) ==
    /\ x.result.total_files <= y.result.total_files
    /\ Len(x.result.duplicates) <= Len(y.result.duplicates)

\* C17: of two scans of one untouched tree, the one that had the flag set at
\* the earlier point returns no more files and no more groups than the one
\* that had it set later or not at all.
C17_EarlierCancelIsNoLarger ==
    TwoScansDone =>
        /\ CancelledBefore(Earlier, Later) => NoLarger(Earlier, Later)
        /\ CancelledBefore(Later, Earlier) => NoLarger(Later, Earlier)

\* A scan that had the flag set after its last check and returned its
\* groups, and a scan of the same tree that had it set while it collected
\* the digests and returned nothing.
C17_Witness ==
    /\ TwoScansDone
    /\ CancelledBefore(Later, Earlier)
    /\ Earlier.cancelAt # None
    /\ Earlier.outcome = "completed"
    /\ Len(Earlier.result.duplicates) >= 1
    /\ Later.outcome = "cancelled"
    /\ Later.cancelAt[1][1] = StageRank["collect"]

MemberSets(r) == { Members(r.duplicates[n]) : n \in DOMAIN r.duplicates }

\* C20: two scans of one untouched tree that both ran to completion return
\* groups with the same sets of members, however the pool workers were
\* scheduled in either.
C20_SameGroupsTwice ==
    (TwoScansDone /\ Earlier.outcome = "completed" /\ outcome = "completed") =>
        MemberSets(Earlier.result) = MemberSets(result)

\* Two completed scans of a tree of two pairs of duplicates, each of which
\* returned two groups.
C20_Witness ==
    /\ TwoScansDone
    /\ Earlier.outcome = "completed"
    /\ outcome = "completed"
    /\ Cardinality(MemberSets(Earlier.result)) = 2
    /\ Cardinality(MemberSets(result)) = 2

\* C18: the percentages handed to the progress callback in one scan_folder
\* call never decrease, from the first update of discovery to the last
\* update of the scan; stated for the scans during which no file appeared.
C18_ProgressNeverDecreases ==
    Len(tree) = total_items =>
        \A i, j \in DOMAIN progress : i < j => Pct(i) <= Pct(j)

\* C19: every percentage handed to the progress callback is in 0..100, and
\* every one handed over by discover_files is in 0..30.
C19_PercentagesInRange ==
    \A i \in DOMAIN progress :
        /\ Pct(i) \in 0 .. 100
        /\ progress[i].msg = "Discovering files..." => Pct(i) \in 0 .. 30

\* The name of directory d itself, however the root path was written.
DirName(d) == IF d = << >> THEN root_folder.base ELSE d[Len(d)]

\* File p lies in or below a directory whose name is in the skip-set.
InSkipped(p) ==
    \E n \in 0 .. Len(tree[p].dir) :
        DirName(SubSeq(tree[p].dir, 1, n)) \in skip_folders

\* C21: no file located in or below a directory whose base name is in the
\* skip-set is among the files discover_files collects, and no such file is
\* counted in the denominator of the discovery progress.
C21_SkippedFoldersLeftOut ==
    /\ \A i \in DOMAIN files : ~ InSkipped(files[i])
    /\ total_items <= Cardinality({ p \in Paths : ~ InSkipped(p) })

\* C22: discover_files admits a file only if its lower-cased extension is in
\* the allow-set and its size does not exceed the configured maximum: a file
\* over the cap and a file of an excluded extension are absent from the
\* collected files whatever other files the tree holds.
C22_OnlyAllowedFilesAdmitted ==
    \A i \in DOMAIN files :
        /\ Lower(tree[files[i]].ext) \in allowed_exts
        /\ tree[files[i]].size <= max_file_size_mb

\* A completed scan of a tree that holds a file over the cap, a file of an
\* excluded extension and an admissible file with an upper-case extension,
\* which alone was collected.
C22_Witness ==
    /\ outcome = "completed"
    /\ \E p \in Paths : tree[p].size > max_file_size_mb
    /\ \E p \in Paths : tree[p].ext = ".exe"
    /\ \E i \in DOMAIN files : tree[files[i]].ext = ".TXT"
    /\ Len(files) = 1

\* The sizes of a set of paths, added up.
RECURSIVE SizeOfSet(_)
SizeOfSet(ps) ==
    IF ps = {} THEN 0
    ELSE LET p == CHOOSE q \in ps : TRUE
         IN  tree[p].size + SizeOfSet(ps \ {p})

\* C23: in a completed scan, space_saved is the sum, over the duplicate
\* groups, of the sizes of every member of the group except the one at
\* index 0.
C23_SpaceSavedIsSizeOfExtras ==
    outcome = "completed" =>
        result.space_saved =
            SizeOfSet({ p \in Paths :
                          \E g \in DOMAIN result.duplicates :
                              \E i \in 2 .. Len(result.duplicates[g]) :
                                  result.duplicates[g][i] = p })

\* A completed scan that returned a group of files of the first size and a
\* group of files of the second size.
C23_Witness ==
    /\ outcome = "completed"
    /\ Len(result.duplicates) = 2
    /\ result.space_saved = 3

\* Where discovery stands one iteration after point x of its two passes.
OneFurther(x) ==
    IF x[1] = StageRank["count"] /\ x[2] = Len(Walked)
      THEN << StageRank["walk"], 1 >>
      ELSE << x[1], x[2] + 1 >>

\* C24: once the flag is set during discovery, in the counting pass as well
\* as in the collecting pass, the walker goes no further than the directory
\* or file in progress, and discover_files returns without raising.
C24_DiscoveryStopsAtTheFlag ==
    (cancelAt # None /\ cancelAt[1][1] \in {StageRank["count"], StageRank["walk"]}) =>
        /\ pc \in {"count", "walk"} => Point \in {cancelAt[1], OneFurther(cancelAt[1])}
        /\ outcome # "raised"

\* The size bucket and the (size, CRC32) group that hold path p, if any.
BucketsOf(p) == { i \in DOMAIN size_groups : p \in Members(size_groups[i].val) }

CrcGroupsOf(p) == { i \in DOMAIN crc_groups : p \in Members(crc_groups[i].val) }

\* The paths of which an MD5 task was submitted.
Submitted == { futures[i].path : i \in DOMAIN futures }

\* C25: a CRC32 is computed only for a file whose size bucket has at least
\* 2 members and an MD5 only for a file whose (size, CRC32) group has at
\* least 2 members; a file alone in its bucket or in its group is hashed no
\* further and is in no duplicate group.
C25_SingletonsNotHashed ==
    \A p \in Paths :
        /\ CrcGroupsOf(p) # {} =>
              \E i \in BucketsOf(p) : Len(size_groups[i].val) >= 2
        /\ p \in Submitted =>
              \E i \in CrcGroupsOf(p) : Len(crc_groups[i].val) >= 2
        /\ (\A i \in BucketsOf(p) : Len(size_groups[i].val) < 2) =>
              (CrcGroupsOf(p) = {} /\ p \notin Submitted /\ ~ InSomeGroup(p))
        /\ (\A i \in CrcGroupsOf(p) : Len(crc_groups[i].val) < 2) =>
              (p \notin Submitted /\ ~ InSomeGroup(p))

\* A completed scan in which one file was alone in its size bucket, another
\* was alone in its (size, CRC32) group, and two more were hashed twice and
\* returned as a group.
C25_Witness ==
    /\ outcome = "completed"
    /\ \E i \in DOMAIN size_groups : Len(size_groups[i].val) = 1
    /\ \E i \in DOMAIN crc_groups : Len(crc_groups[i].val) = 1
    /\ Len(result.duplicates) = 1

\* The paths on which a read for a digest failed: a CRC32 that is missing
\* from a bucket that was hashed, or an MD5 task that returned None.
CrcFailed ==
    { p \in Paths : /\ \E i \in BucketsOf(p) : i < gi /\ Len(size_groups[i].val) >= 2
                    /\ CrcGroupsOf(p) = {} }

Md5Failed ==
    { futures[i].path : i \in { j \in DOMAIN futures :
                                  futures[j].done /\ futures[j].val = None } }

HashFailed == CrcFailed \cup Md5Failed

\* The groups of a scan that discovers the set S of files: the files that
\* share their size with another file of S, of these the ones that also
\* share their CRC32, gathered by MD5.
SizeMates(S) == { p \in S : \E q \in S \ {p} : tree[q].size = tree[p].size }

CrcMates(S) ==
    { p \in SizeMates(S) :
        \E q \in SizeMates(S) \ {p} :
            tree[q].size = tree[p].size /\ tree[q].crc = tree[p].crc }

GroupsOfSet(S) ==
    { g \in { { p \in CrcMates(S) : tree[p].md5 = m } : m \in Md5s } :
        Cardinality(g) >= 2 }

\* C26: a read failure while one file is hashed, for its CRC32 or its MD5,
\* removes only that file from the result: the scan completes and groups
\* the other files exactly as a scan that had not discovered the failing
\* file would.
C26_HashFailureDropsOnlyThatFile ==
    (pc = "done" /\ outcome # "cancelled" /\ HashFailed # {}) =>
        /\ outcome = "completed"
        /\ MemberSets(result) = GroupsOfSet(Members(files) \ HashFailed)

\* C27: in every ScanResult each duplicate group has at least 2 members, no
\* path occurs twice within a group, and no path occurs in two different
\* groups.
C27_GroupsAreDisjointPairsOrMore ==
    LET d == result.duplicates
    IN  /\ \A g \in DOMAIN d : Len(d[g]) >= 2
        /\ \A g \in DOMAIN d : \A i, j \in DOMAIN d[g] : d[g][i] = d[g][j] => i = j
        /\ \A g, h \in DOMAIN d : g # h => Members(d[g]) \cap Members(d[h]) = {}

\* A completed scan that returned two groups of two files each.
C27_Witness ==
    /\ outcome = "completed"
    /\ Len(result.duplicates) = 2
    /\ \A g \in DOMAIN result.duplicates : Len(result.duplicates[g]) = 2

\* What a cleanup operation that finds the flag set may do in one step: it
\* leaves the flag set and the file system as it is, and from the head of
\* its loop over the groups it returns with both totals at 0.
StaysCancelled == cancelled => cancelled'

StopsAtFirstGroup ==
    (cancelled /\ cl_pc = "group" /\ cgi = 1) =>
        /\ cl_pc' \in {"group", "done"}
        /\ fsys' = fsys
        /\ op_count' = 0
        /\ op_size' = 0

\* C28 as stated: move_duplicates and delete_duplicates never reset the
\* flag, and either of them, invoked while the flag is set, moves or
\* deletes no file and returns (0, 0).
C28_FlagStopsCleanup ==
    [][/\ StaysCancelled
       /\ (cancelled /\ cl_pc = "idle") => (fsys' = fsys /\ cl_pc' \in {"idle", "group"})
       /\ StopsAtFirstGroup]_vars

\* C28, amended: move_duplicates and delete_duplicates never reset the
\* flag, and either of them, invoked while the flag is set, moves or
\* deletes no file and returns (0, 0), unless move_duplicates fails to
\* create the destination directory, in which case it raises.
C28_FlagStopsCleanupOrMkdirRaises ==
    [][/\ StaysCancelled
       /\ (cancelled /\ cl_pc = "idle") =>
             /\ fsys' = fsys
             /\ cl_pc' \in {"idle", "group", "raised"}
             /\ cl_pc' = "raised" => mode' = "move"
       /\ StopsAtFirstGroup]_vars

\* move_duplicates has returned (0, 0) with the flag set, without having
\* tried a single duplicate of the two groups it was given.
C28_Witness ==
    /\ Returned
    /\ mode = "move"
    /\ cancelled
    /\ Len(dups) = 2
    /\ attempts = << >>
    /\ fsys = fs0
    /\ op_count = 0
    /\ op_size = 0

\* C29: at most one scan worker thread is executing scan_folder on the
\* shared ScanEngine at any time, whatever sequence of Start Scan and Cancel
\* button events the window receives.
C29_OneScanAtATime == Cardinality({ t \in Scans : InScan(t) }) <= 1

\* The places of scan_folder after the "with ThreadPoolExecutor" block.
PastThePool == pc \in {"check2", "finish", "done"}

\* C30: every scan_folder invocation eventually returns or raises, given
\* that every file-system call returns and that the pool workers are
\* scheduled fairly; and it is past the pool, also after a cancellation
\* during the MD5 stage, only when every submitted digest task has finished.
C30_ScanEndsAfterItsTasks ==
    /\ (pc # "idle") ~> (pc = "done")
    /\ [](PastThePool => \A i \in DOMAIN futures : futures[i].done)

\* A scan that was cancelled while it collected MD5 results, before it had
\* taken the result of every task, and has returned with all tasks done.
C30_Witness ==
    /\ pc = "done"
    /\ outcome = "cancelled"
    /\ Len(futures) >= 2
    /\ k > 1
    /\ k <= Len(futures)
    /\ \A i \in DOMAIN futures : futures[i].done

=============================================================================
